---- MODULE Spec2Model ----
(***************************************************************************)
(* A model of @darblast/api (src/src/api.ts): the recursive query-string   *)
(* encoder, the four request functions getJSON / postJSON / putJSON /      *)
(* deleteJSON and the HttpError they raise, running against a transport    *)
(* (window.fetch) that answers every request in any order.                 *)
(*                                                                         *)
(* JavaScript strings are TLA+ strings; a JavaScript value is a record     *)
(* tagged by "kind".  An object is the sequence of its own enumerable      *)
(* properties <<key, value>> in the order `for (key in data)` visits them. *)
(***************************************************************************)
EXTENDS Integers, Sequences, FiniteSets, TLC

VARIABLES calls, transport

vars == <<calls, transport>>

---------------------------------------------------------------------------
(* JavaScript values *)

Undefined == [kind |-> "undefined"]
Null      == [kind |-> "null"]
Func      == [kind |-> "function"]
Sym       == [kind |-> "symbol"]
Bool(b)   == [kind |-> "boolean", b |-> b]
Num(n)    == [kind |-> "number", n |-> n]
BigInt(n) == [kind |-> "bigint", n |-> n]
Str(s)    == [kind |-> "string", s |-> s]
Arr(xs)   == [kind |-> "array", items |-> xs]
Obj(es)   == [kind |-> "object", entries |-> es]

(* typeof data *)
typeof(data) ==
  CASE data.kind \in {"null", "array", "object"} -> "object"
    [] OTHER -> data.kind

(* Array.isArray(data) *)
isArray(data) == data.kind = "array"

(* ToBoolean(data): the test of `if (data)` *)
ToBoolean(data) ==
  CASE data.kind \in {"undefined", "null"} -> FALSE
    [] data.kind = "boolean" -> data.b
    [] data.kind \in {"number", "bigint"} -> data.n # 0
    [] data.kind = "string" -> data.s # ""
    [] OTHER -> TRUE

---------------------------------------------------------------------------
(* Strings *)

Digits == <<"0", "1", "2", "3", "4", "5", "6", "7", "8", "9">>

RECURSIVE NatToString(_)
NatToString(n) ==
  IF n < 10 THEN Digits[n + 1]
  ELSE NatToString(n \div 10) \o Digits[(n % 10) + 1]

(* String(n) for an integer n *)
NumberToString(n) ==
  IF n < 0 THEN "-" \o NatToString(0 - n) ELSE NatToString(n)

(* String(data) for the primitives encode passes to encodeURIComponent *)
ToStringJS(data) ==
  IF data.kind = "number" THEN NumberToString(data.n) ELSE data.s

(* The characters encodeURIComponent leaves alone, among those the model uses *)
Unreserved ==
  {"a", "b", "c", "d", "e", "f", "g", "h", "i", "j", "k", "l", "m",
   "n", "o", "p", "q", "r", "s", "t", "u", "v", "w", "x", "y", "z",
   "0", "1", "2", "3", "4", "5", "6", "7", "8", "9",
   "-", "_", ".", "!", "~", "*", "'", "(", ")"}

(* The escape of one reserved character *)
PercentEncode(ch) ==
  CASE ch = " " -> "%20"
    [] ch = "[" -> "%5B"
    [] ch = "]" -> "%5D"
    [] ch = "=" -> "%3D"
    [] ch = "&" -> "%26"
    [] ch = "?" -> "%3F"
    [] ch = "%" -> "%25"
    [] ch = "/" -> "%2F"
    [] ch = "+" -> "%2B"
    [] ch = ":" -> "%3A"
    [] ch = "," -> "%2C"

RECURSIVE encodeURIComponent(_)
encodeURIComponent(str) ==
  IF str = "" THEN ""
  ELSE LET ch == SubSeq(str, 1, 1)
       IN (IF ch \in Unreserved THEN ch ELSE PercentEncode(ch))
            \o encodeURIComponent(SubSeq(str, 2, Len(str)))

(* Array.prototype.join *)
RECURSIVE join(_, _)
join(strs, sep) ==
  IF Len(strs) = 0 THEN ""
  ELSE IF Len(strs) = 1 THEN strs[1]
  ELSE strs[1] \o sep \o join(Tail(strs), sep)

(* flatten of @darblast/utils on an array of arrays of strings *)
RECURSIVE flatten(_)
flatten(arrays) ==
  IF Len(arrays) = 0 THEN <<>>
  ELSE Head(arrays) \o flatten(Tail(arrays))

---------------------------------------------------------------------------
(* The parameter encoder.  A run of encode either returns its fragments or *)
(* throws the TypeError of its default branch.                             *)

Return(entries) == [threw |-> FALSE, entries |-> entries]
Throw           == [threw |-> TRUE, entries |-> <<>>]

(* Mutant: every object prefix gets its dot, the empty top-level one too *)
dottedPrefixAlways(prefix) == prefix \o "."

(* `if (prefix) { prefix += '.'; }` *)
dottedPrefix(prefix) == IF prefix # "" THEN prefix \o "." ELSE prefix

RECURSIVE encode(_, _)
encode(prefix, data) ==
  CASE typeof(data) = "undefined" -> Return(<<>>)
    [] typeof(data) = "boolean" ->
         IF data.b THEN Return(<<encodeURIComponent(prefix)>>) ELSE Return(<<>>)
    [] typeof(data) \in {"string", "number"} ->
         Return(<<encodeURIComponent(prefix) \o "="
                    \o encodeURIComponent(ToStringJS(data))>>)
    [] typeof(data) = "object" ->
         IF isArray(data)
         THEN LET mapped == [index \in 1 .. Len(data.items) |->
                               encode(prefix \o "[" \o NumberToString(index - 1) \o "]",
                                      data.items[index])]
              IN IF \E index \in 1 .. Len(data.items) : mapped[index].threw
                 THEN Throw
                 ELSE Return(flatten([index \in 1 .. Len(data.items) |->
                                        mapped[index].entries]))
         ELSE IF data # Null
         THEN LET dotted == dottedPrefix(prefix)
                  pushed == [k \in 1 .. Len(data.entries) |->
                               encode(dotted \o data.entries[k][1], data.entries[k][2])]
              IN IF \E k \in 1 .. Len(data.entries) : pushed[k].threw
                 THEN Throw
                 ELSE Return(flatten([k \in 1 .. Len(data.entries) |->
                                        pushed[k].entries]))
         ELSE Return(<<>>)
    [] OTHER -> Throw

---------------------------------------------------------------------------
(* JSON.stringify *)

(* The values JSON.stringify gives a text; for the others it returns undefined *)
Serializable(data) == data.kind \notin {"undefined", "function", "symbol"}

PropertySerializable(entry) == Serializable(entry[2])

(* The quoted form of a string: a quote and a backslash are escaped *)
RECURSIVE JSONEscape(_)
JSONEscape(str) ==
  IF str = "" THEN ""
  ELSE LET ch == SubSeq(str, 1, 1)
       IN (IF ch \in {"\"", "\\"} THEN "\\" \o ch ELSE ch)
            \o JSONEscape(SubSeq(str, 2, Len(str)))

JSONQuote(str) == "\"" \o JSONEscape(str) \o "\""

RECURSIVE JSONText(_)
JSONText(data) ==
  CASE data.kind = "null" -> "null"
    [] data.kind = "boolean" -> IF data.b THEN "true" ELSE "false"
    [] data.kind = "number" -> NumberToString(data.n)
    [] data.kind = "string" -> JSONQuote(data.s)
    [] data.kind = "array" ->
         "[" \o join([i \in 1 .. Len(data.items) |->
                        IF Serializable(data.items[i])
                        THEN JSONText(data.items[i]) ELSE "null"], ",") \o "]"
    [] data.kind = "object" ->
         LET kept == SelectSeq(data.entries, PropertySerializable)
         IN "{" \o join([k \in 1 .. Len(kept) |->
                           JSONQuote(kept[k][1]) \o ":" \o JSONText(kept[k][2])], ",")
                \o "}"

(* JSON.stringify(data) as a request body: absent when stringify returns undefined *)
NoBody == [present |-> FALSE, text |-> ""]

JSONstringify(data) ==
  IF Serializable(data) THEN [present |-> TRUE, text |-> JSONText(data)] ELSE NoBody

---------------------------------------------------------------------------
(* Errors and promise results *)

HttpVerb == {"GET", "POST", "PUT", "DELETE"}

HttpError(verb, url, status) ==
  [name |-> "HttpError", verb |-> verb, url |-> url, status |-> status,
   message |-> "HTTP error " \o NumberToString(status) \o " for " \o verb
                 \o " " \o JSONQuote(url)]

(* new TypeError() of encode's default branch *)
TypeError == [name |-> "TypeError", message |-> ""]

Pending      == [state |-> "pending"]
Fulfilled(v) == [state |-> "fulfilled", value |-> v]
Rejected(e)  == [state |-> "rejected", error |-> e]

---------------------------------------------------------------------------
(* The request functions.  A call is the record of one invocation: the     *)
(* caller's arguments (args), the function's locals (url, encodedParams,   *)
(* init, response), the await it is suspended at (pc) and the state of the *)
(* promise it returned (result).                                           *)

NoResponse == [received |-> FALSE]
NoInit     == [method |-> "", headers |-> {}, body |-> NoBody]

IdleCall ==
  [fn |-> "none", args |-> [url |-> "", params |-> Undefined], pc |-> "idle",
   verb |-> "", url |-> "", encodedParams |-> <<>>, init |-> NoInit,
   response |-> NoResponse, result |-> Pending]

(* Mutant: the '?' is appended whether or not there are fragments *)
appendQueryAlways(url, encodedParams) == url \o "?" \o join(encodedParams, "&")

(* `if (encodedParams.length > 0) { url += '?' + encodedParams.join('&'); }` *)
appendQuery(url, encodedParams) ==
  IF Len(encodedParams) > 0 THEN url \o "?" \o join(encodedParams, "&") ELSE url

(* Mutant: the encoder's TypeError is swallowed and the request goes out bare *)
getJSONSwallowsTypeError(url, params) ==
  LET encodedParams == encode("", params)
  IN [IdleCall EXCEPT !.fn = "getJSON",
                      !.args = [url |-> url, params |-> params],
                      !.verb = "GET",
                      !.encodedParams = encodedParams.entries,
                      !.url = appendQuery(url, encodedParams.entries),
                      !.init = [method |-> "GET", headers |-> {}, body |-> NoBody],
                      !.pc = "fetch"]

(* getJSON up to `await window.fetch(url, {method: 'GET'})` *)
getJSON(url, params) ==
  LET encodedParams == encode("", params)
      entered == [IdleCall EXCEPT !.fn = "getJSON",
                                  !.args = [url |-> url, params |-> params],
                                  !.verb = "GET", !.url = url]
  IN IF encodedParams.threw
     THEN [entered EXCEPT !.pc = "done", !.result = Rejected(TypeError)]
     ELSE [entered EXCEPT
             !.encodedParams = encodedParams.entries,
             !.url = appendQuery(url, encodedParams.entries),
             !.init = [method |-> "GET", headers |-> {}, body |-> NoBody],
             !.pc = "fetch"]

(* The url of the request made last, by whichever call *)
LastUrl ==
  LET started == {c \in DOMAIN calls : calls[c].pc # "idle"}
      last == CHOOSE c \in started : \A d \in started : d <= c
  IN calls[last].url

(* Mutant: the url lives in one variable all calls share *)
getJSONResponseSharedUrl(call, status) ==
  IF status # 200
  THEN [call EXCEPT !.response = [received |-> TRUE, status |-> status],
                    !.pc = "done",
                    !.result = Rejected(HttpError("GET", LastUrl, status))]
  ELSE [call EXCEPT !.response = [received |-> TRUE, status |-> status],
                    !.pc = "json"]

(* Mutant: the error carries the caller's url, without the query string *)
getJSONResponseCallerUrl(call, status) ==
  IF status # 200
  THEN [call EXCEPT !.response = [received |-> TRUE, status |-> status],
                    !.pc = "done",
                    !.result = Rejected(HttpError("GET", call.args.url, status))]
  ELSE [call EXCEPT !.response = [received |-> TRUE, status |-> status],
                    !.pc = "json"]

(* Mutant: the body is read before the status is looked at *)
getJSONResponseReadsFirst(call, status) ==
  [call EXCEPT !.response = [received |-> TRUE, status |-> status], !.pc = "json"]

(* getJSON from the response of fetch to `await response.json()` *)
getJSONResponse(call, status) ==
  IF status # 200
  THEN [call EXCEPT !.response = [received |-> TRUE, status |-> status],
                    !.pc = "done",
                    !.result = Rejected(HttpError("GET", call.url, status))]
  ELSE [call EXCEPT !.response = [received |-> TRUE, status |-> status],
                    !.pc = "json"]

(* requestJSON up to `await window.fetch(url, request)` *)
requestJSON(verb, url, params) ==
  LET entered == [IdleCall EXCEPT !.args = [url |-> url, params |-> params],
                                  !.verb = verb, !.url = url]
  IN IF ToBoolean(params)
     THEN [entered EXCEPT
             !.init = [method |-> verb,
                       headers |-> {<<"Content-Type", "application/json">>},
                       body |-> JSONstringify(params)],
             !.pc = "fetch"]
     ELSE [entered EXCEPT
             !.init = [method |-> verb, headers |-> {}, body |-> NoBody],
             !.pc = "fetch"]

(* Mutant: every 2xx status counts as success *)
requestJSONResponseAny2xx(call, status) ==
  IF status < 200 \/ status > 299
  THEN [call EXCEPT !.response = [received |-> TRUE, status |-> status],
                    !.pc = "done",
                    !.result = Rejected(HttpError(call.verb, call.url, status))]
  ELSE [call EXCEPT !.response = [received |-> TRUE, status |-> status],
                    !.pc = "json"]

(* Mutant: a status other than 200 sends the request again *)
requestJSONResponseRetries(call, status) ==
  IF status # 200
  THEN [call EXCEPT !.response = [received |-> TRUE, status |-> status],
                    !.pc = "fetch"]
  ELSE [call EXCEPT !.response = [received |-> TRUE, status |-> status],
                    !.pc = "json"]

(* requestJSON from the response of fetch to `await response.json()` *)
requestJSONResponse(call, status) ==
  IF status # 200
  THEN [call EXCEPT !.response = [received |-> TRUE, status |-> status],
                    !.pc = "done",
                    !.result = Rejected(HttpError(call.verb, call.url, status))]
  ELSE [call EXCEPT !.response = [received |-> TRUE, status |-> status],
                    !.pc = "json"]

postJSON(url, params)   == [requestJSON("POST", url, params) EXCEPT !.fn = "postJSON"]
putJSON(url, params)    == [requestJSON("PUT", url, params) EXCEPT !.fn = "putJSON"]
deleteJSON(url, params) == [requestJSON("DELETE", url, params) EXCEPT !.fn = "deleteJSON"]

(* The code after `await window.fetch(...)`, of the function the call runs *)
Response(call, status) ==
  IF call.fn = "getJSON" THEN getJSONResponse(call, status)
  ELSE requestJSONResponse(call, status)

(* Mutant: a failed await is caught and reported as an HttpError *)
AwaitRejectedWrapped(call, error) ==
  [call EXCEPT !.pc = "done",
               !.result = Rejected(HttpError(call.verb, call.url, 500))]

(* An awaited promise that rejects: no try/catch, the error leaves the function *)
AwaitRejected(call, error) ==
  [call EXCEPT !.pc = "done", !.result = Rejected(error)]

(* `return await response.json()` once json() has resolved *)
ReturnJSON(call, value) ==
  [call EXCEPT !.pc = "done", !.result = Fulfilled(value)]

---------------------------------------------------------------------------
(* Bounds and the inputs drawn within them *)

(* Calls the caller has in flight at once *)
MaxCalls == 2

(* Nodes (primitives, arrays, objects) of a generated params tree *)
MaxNodes == 3

CallIds == 1 .. MaxCalls

Leaves ==
  {Undefined, Null, Bool(FALSE), Bool(TRUE), Num(0), Num(12), Str(""), Str("a b"),
   Func}

Keys == {"a", "b c"}

(* The orders in which n distinct keys can be enumerated *)
KeyOrders(n) ==
  {ks \in [1 .. n -> Keys] : \A i, j \in 1 .. n : i # j => ks[i] # ks[j]}

(* Tree(n): the values of exactly n nodes; Forest(n): the sequences of values *)
(* of n nodes in all                                                         *)
RECURSIVE Tree(_), Forest(_)
Forest(n) ==
  IF n = 0 THEN {<<>>}
  ELSE UNION {{<<t>> \o f : t \in Tree(k), f \in Forest(n - k)} : k \in 1 .. n}

Tree(n) ==
  IF n = 0 THEN {}
  ELSE (IF n = 1 THEN Leaves ELSE {})
         \cup {Arr(f) : f \in Forest(n - 1)}
         \cup UNION {{Obj([i \in 1 .. Len(f) |-> <<ks[i], f[i]>>]) :
                        ks \in KeyOrders(Len(f))} : f \in Forest(n - 1)}

Trees == UNION {Tree(n) : n \in 1 .. MaxNodes}

(* The params of the repository's tests and documentation *)
DocExample ==
  Obj(<< <<"lorem", Str("ipsum dolor")>>,
         <<"amet", Arr(<<Str("adipisci"), Obj(<< <<"elit", Num(123)>> >>), Num(456)>>)>> >>)

TestBooleans == Obj(<< <<"one", Bool(TRUE)>>, <<"two", Bool(FALSE)>> >>)
TestNumbers  == Obj(<< <<"num1", Num(12)>>, <<"num2", Num(34)>> >>)
TestArray    == Obj(<< <<"arr", Arr(<<Num(12), Str("foo"), Bool(TRUE)>>)>> >>)
TestNested   ==
  Obj(<< <<"obj", Obj(<< <<"foo", Num(12)>>, <<"bar", Str("bar")>>,
                         <<"baz", Bool(TRUE)>> >>)>> >>)

Examples ==
  {DocExample, TestBooleans, TestNumbers, TestArray, TestNested,
   Obj(<< <<"n", Num(-7)>>, <<"s", Sym>> >>),
   Arr(<<Num(1), Arr(<<Null, BigInt(1)>>)>>)}

GetParams  == Trees \cup Examples
BodyParams == Trees \cup {Obj(<< <<"a", Num(1)>> >>), DocExample}

Urls == {"foo/bar", "q?x=1"}

Statuses == {200, 201, 204, 301, 404, 500}

(* Parsed response bodies *)
Bodies == {Obj(<<>>), Obj(<< <<"foo", Str("bar")>>, <<"baz", Num(42)>> >>)}

(* What fetch rejects with, and what json() rejects with *)
FetchErrors == {[name |-> "TypeError", message |-> "Failed to fetch"]}
JsonErrors  == {[name |-> "SyntaxError", message |-> "Unexpected end of JSON input"]}

(* The smaller inputs of the concurrent specification *)
SampleGetParams  == {Undefined, TestNumbers, Obj(<< <<"cb", Func>> >>)}
SamplePostParams == {Undefined, Obj(<< <<"a", Num(1)>> >>)}
SamplePutParams  == {Obj(<< <<"a", Num(1)>> >>)}
SampleDeleteParams == {Undefined}
SampleStatuses   == {200, 404}
SampleBodies     == {Obj(<<>>)}

---------------------------------------------------------------------------
(* The transport: window.fetch and the response's json().  For each call   *)
(* it holds the requests the call has made and what it answered.           *)

IdleTransport ==
  [requests |-> <<>>, fetch |-> [state |-> "none"], jsonCalls |-> 0,
   json |-> [state |-> "none"]]

(* The await a call has just reached: fetch is called with the call's url   *)
(* and init, json() is called on its response                               *)
Awaited(call, tr) ==
  IF call.pc = "fetch"
  THEN [tr EXCEPT !.requests = Append(@, [url |-> call.url, init |-> call.init]),
                  !.fetch = [state |-> "pending"]]
  ELSE IF call.pc = "json"
  THEN [tr EXCEPT !.jsonCalls = @ + 1, !.json = [state |-> "pending"]]
  ELSE tr

(* Call c runs to its next await or to its end *)
Run(c, call, tr) ==
  /\ calls' = [calls EXCEPT ![c] = call]
  /\ transport' = [transport EXCEPT ![c] = Awaited(call, tr)]

(* Calls are numbered in the order the caller makes them *)
CanCall(c) ==
  /\ calls[c].pc = "idle"
  /\ IF c = 1 THEN TRUE ELSE calls[c - 1].pc # "idle"

Init ==
  /\ calls = [c \in CallIds |-> IdleCall]
  /\ transport = [c \in CallIds |-> IdleTransport]

CallGetJSON(c, urls, values) ==
  /\ CanCall(c)
  /\ \E url \in urls, params \in values :
       Run(c, getJSON(url, params), transport[c])

CallPostJSON(c, urls, values) ==
  /\ CanCall(c)
  /\ \E url \in urls, params \in values :
       Run(c, postJSON(url, params), transport[c])

CallPutJSON(c, urls, values) ==
  /\ CanCall(c)
  /\ \E url \in urls, params \in values :
       Run(c, putJSON(url, params), transport[c])

CallDeleteJSON(c, urls, values) ==
  /\ CanCall(c)
  /\ \E url \in urls, params \in values :
       Run(c, deleteJSON(url, params), transport[c])

(* fetch resolves with a response of the given status *)
FetchResolves(c, status) ==
  /\ calls[c].pc = "fetch"
  /\ transport[c].fetch.state = "pending"
  /\ Run(c, Response(calls[c], status),
         [transport[c] EXCEPT !.fetch = [state |-> "fulfilled", status |-> status]])

(* fetch rejects: the request never got a response *)
FetchRejects(c, error) ==
  /\ calls[c].pc = "fetch"
  /\ transport[c].fetch.state = "pending"
  /\ Run(c, AwaitRejected(calls[c], error),
         [transport[c] EXCEPT !.fetch = [state |-> "rejected", error |-> error]])

(* json() resolves with the parsed body *)
JsonResolves(c, value) ==
  /\ calls[c].pc = "json"
  /\ transport[c].json.state = "pending"
  /\ Run(c, ReturnJSON(calls[c], value),
         [transport[c] EXCEPT !.json = [state |-> "fulfilled", value |-> value]])

(* json() rejects: the body is not JSON *)
JsonRejects(c, error) ==
  /\ calls[c].pc = "json"
  /\ transport[c].json.state = "pending"
  /\ Run(c, AwaitRejected(calls[c], error),
         [transport[c] EXCEPT !.json = [state |-> "rejected", error |-> error]])

(* Concurrent calls, any order of answers *)
Next ==
  \E c \in CallIds :
    \/ CallGetJSON(c, Urls, SampleGetParams)
    \/ CallPostJSON(c, Urls, SamplePostParams)
    \/ CallPutJSON(c, Urls, SamplePutParams)
    \/ CallDeleteJSON(c, Urls, SampleDeleteParams)
    \/ \E status \in SampleStatuses : FetchResolves(c, status)
    \/ \E error \in FetchErrors : FetchRejects(c, error)
    \/ \E value \in SampleBodies : JsonResolves(c, value)
    \/ \E error \in JsonErrors : JsonRejects(c, error)

Spec == Init /\ [][Next]_vars

(* One call alone, every shape of argument and answer *)
SoloNext ==
  \/ CallGetJSON(1, Urls, GetParams)
  \/ CallPostJSON(1, Urls, BodyParams)
  \/ CallPutJSON(1, Urls, BodyParams)
  \/ CallDeleteJSON(1, Urls, BodyParams)
  \/ \E status \in Statuses : FetchResolves(1, status)
  \/ \E error \in FetchErrors : FetchRejects(1, error)
  \/ \E value \in Bodies : JsonResolves(1, value)
  \/ \E error \in JsonErrors : JsonRejects(1, error)

SoloSpec == Init /\ [][SoloNext]_vars

---------------------------------------------------------------------------
(* What the properties below are stated with *)

VerbOf(fn) ==
  CASE fn = "getJSON" -> "GET"
    [] fn = "postJSON" -> "POST"
    [] fn = "putJSON" -> "PUT"
    [] fn = "deleteJSON" -> "DELETE"

BodyFns == {"postJSON", "putJSON", "deleteJSON"}

(* No function, symbol or bigint anywhere in the tree *)
RECURSIVE Supported(_)
Supported(value) ==
  CASE value.kind \in {"function", "symbol", "bigint"} -> FALSE
    [] value.kind = "array" ->
         \A i \in 1 .. Len(value.items) : Supported(value.items[i])
    [] value.kind = "object" ->
         \A k \in 1 .. Len(value.entries) : Supported(value.entries[k][2])
    [] OTHER -> TRUE

(* Every leaf of the tree is false, undefined or null *)
RECURSIVE OnlyOmittedLeaves(_)
OnlyOmittedLeaves(value) ==
  CASE value.kind \in {"undefined", "null"} -> TRUE
    [] value.kind = "boolean" -> ~value.b
    [] value.kind = "array" ->
         \A i \in 1 .. Len(value.items) : OnlyOmittedLeaves(value.items[i])
    [] value.kind = "object" ->
         \A k \in 1 .. Len(value.entries) : OnlyOmittedLeaves(value.entries[k][2])
    [] OTHER -> FALSE

(* The reference definition of the encoder, on supported values *)
RECURSIVE RefEncode(_, _), RefEncodeItems(_, _, _), RefEncodeEntries(_, _)
RefEncode(prefix, value) ==
  CASE value.kind \in {"undefined", "null"} -> <<>>
    [] value.kind = "boolean" ->
         IF value.b THEN <<encodeURIComponent(prefix)>> ELSE <<>>
    [] value.kind = "number" ->
         <<encodeURIComponent(prefix) \o "="
             \o encodeURIComponent(NumberToString(value.n))>>
    [] value.kind = "string" ->
         <<encodeURIComponent(prefix) \o "=" \o encodeURIComponent(value.s)>>
    [] value.kind = "array" -> RefEncodeItems(prefix, value.items, 0)
    [] value.kind = "object" ->
         RefEncodeEntries(IF prefix = "" THEN "" ELSE prefix \o ".", value.entries)

RefEncodeItems(prefix, items, i) ==
  IF items = <<>> THEN <<>>
  ELSE RefEncode(prefix \o "[" \o NumberToString(i) \o "]", Head(items))
         \o RefEncodeItems(prefix, Tail(items), i + 1)

RefEncodeEntries(p, entries) ==
  IF entries = <<>> THEN <<>>
  ELSE RefEncode(p \o Head(entries)[1], Head(entries)[2])
         \o RefEncodeEntries(p, Tail(entries))

RECURSIVE AmpJoined(_)
AmpJoined(fragments) ==
  IF Len(fragments) = 1 THEN fragments[1]
  ELSE fragments[1] \o "&" \o AmpJoined(Tail(fragments))

(* The URL getJSON(url, params) is to issue its request to *)
QueryUrl(url, params) ==
  IF RefEncode("", params) = <<>> THEN url
  ELSE url \o "?" \o AmpJoined(RefEncode("", params))

Prefixes == {"", "p", "k[0]", "a b"}

GetRequest(url) ==
  [url |-> url, init |-> [method |-> "GET", headers |-> {}, body |-> NoBody]]

IsHttpError(result) ==
  result.state = "rejected" /\ result.error.name = "HttpError"

(* The request and the outcome of a call that runs alone: functions of its *)
(* own arguments and of what the transport answered to it                  *)
AloneUrl(call) ==
  IF call.fn = "getJSON" THEN QueryUrl(call.args.url, call.args.params)
  ELSE call.args.url

AloneRequests(call) ==
  IF call.fn = "getJSON"
  THEN IF Supported(call.args.params) THEN <<GetRequest(AloneUrl(call))>> ELSE <<>>
  ELSE <<[url |-> call.args.url,
          init |-> IF ToBoolean(call.args.params)
                   THEN [method |-> VerbOf(call.fn),
                         headers |-> {<<"Content-Type", "application/json">>},
                         body |-> JSONstringify(call.args.params)]
                   ELSE [method |-> VerbOf(call.fn), headers |-> {},
                         body |-> NoBody]]>>

AloneResult(call, tr) ==
  IF call.fn = "getJSON" /\ ~Supported(call.args.params) THEN Rejected(TypeError)
  ELSE CASE tr.fetch.state = "pending" -> Pending
         [] tr.fetch.state = "rejected" -> Rejected(tr.fetch.error)
         [] tr.fetch.state = "fulfilled" ->
              IF tr.fetch.status # 200
              THEN Rejected(HttpError(VerbOf(call.fn), AloneUrl(call), tr.fetch.status))
              ELSE CASE tr.json.state = "pending" -> Pending
                     [] tr.json.state = "fulfilled" -> Fulfilled(tr.json.value)
                     [] tr.json.state = "rejected" -> Rejected(tr.json.error)

---------------------------------------------------------------------------
(* Properties *)

(* C1, as amended: once the transport has delivered a response, a status   *)
(* other than 200 rejects the call with an HttpError; status 200 has       *)
(* json() called, and the call then resolves with the parsed body if       *)
(* json() resolves and rejects with json()'s own error if json() rejects.  *)
(* So the call resolves only if the status is exactly 200.                 *)
C1_StatusDecidesOutcome ==
  \A c \in CallIds :
    transport[c].fetch.state = "fulfilled" =>
      LET status == transport[c].fetch.status
          result == calls[c].result
          json   == transport[c].json
      IN /\ status # 200 => IsHttpError(result)
         /\ result.state = "fulfilled" => status = 200
         /\ status = 200 =>
              CASE json.state = "pending" -> result = Pending
                [] json.state = "fulfilled" -> result = Fulfilled(json.value)
                [] json.state = "rejected" -> result = Rejected(json.error)
                [] OTHER -> FALSE

(* A 204 response has rejected the call with an HttpError *)
C1_Witness ==
  \E c \in CallIds :
    /\ transport[c].fetch.state = "fulfilled"
    /\ transport[c].fetch.status = 204
    /\ calls[c].pc = "done"
    /\ IsHttpError(calls[c].result)

(* C1, as stated: a call the transport answered ends in one of two ways,   *)
(* resolved with the parsed body (status 200) or rejected with an          *)
(* HttpError (any other status)                                            *)
C1_TwoOutcomesOnly ==
  \A c \in CallIds :
    (transport[c].fetch.state = "fulfilled" /\ calls[c].pc = "done") =>
      \/ /\ transport[c].fetch.status = 200
         /\ calls[c].result.state = "fulfilled"
      \/ /\ transport[c].fetch.status # 200
         /\ IsHttpError(calls[c].result)

(* C2: on every value without a function, symbol or bigint, encode returns *)
(* the fragments of the reference definition, for the empty prefix getJSON *)
(* passes and for non-empty ones: nothing for undefined, false and null,   *)
(* the bare key for true, key=value for a number or a string, the items    *)
(* of an array in index order under prefix[i], the properties of an object *)
(* in enumeration order under prefix.key, without the dot at the top level *)
C2_EncodeIsReference ==
  \A c \in CallIds :
    (calls[c].fn = "getJSON" /\ Supported(calls[c].args.params)) =>
      /\ calls[c].encodedParams = RefEncode("", calls[c].args.params)
      /\ \A prefix \in Prefixes :
           encode(prefix, calls[c].args.params)
             = Return(RefEncode(prefix, calls[c].args.params))

(* The documented example has been encoded *)
C2_Witness ==
  \E c \in CallIds :
    /\ calls[c].fn = "getJSON"
    /\ calls[c].args.params = DocExample
    /\ calls[c].encodedParams
         = <<"lorem=ipsum%20dolor", "amet%5B0%5D=adipisci", "amet%5B1%5D.elit=123",
             "amet%5B2%5D=456">>

(* C3: the one request of getJSON(url, params) is a GET without body or    *)
(* headers to url itself when params yields no fragment, and to            *)
(* url ? f1 & ... & fn otherwise; a params whose leaves are all false,     *)
(* undefined or null yields none; a '?' already in url is left as it is    *)
C3_GetRequest ==
  \A c \in CallIds :
    (calls[c].fn = "getJSON" /\ Supported(calls[c].args.params)) =>
      LET url == calls[c].args.url
          params == calls[c].args.params
          fragments == RefEncode("", params)
      IN /\ transport[c].requests =
              <<GetRequest(IF fragments = <<>> THEN url
                           ELSE url \o "?" \o AmpJoined(fragments))>>
         /\ OnlyOmittedLeaves(params) => transport[c].requests[1].url = url
         /\ (transport[c].requests[1].url = url) <=> (fragments = <<>>)

(* Two fragments have been appended to a url that holds a '?' *)
C3_Witness ==
  \E c \in CallIds :
    /\ calls[c].fn = "getJSON"
    /\ calls[c].args = [url |-> "q?x=1", params |-> TestNumbers]
    /\ transport[c].requests = <<GetRequest("q?x=1?num1=12&num2=34")>>

(* C4, as stated: the request of postJSON, putJSON and deleteJSON goes to  *)
(* the caller's url; with any params but undefined (null, false, 0 and ""  *)
(* included) it carries the JSON text of params and Content-Type:          *)
(* application/json, with params undefined neither                         *)
C4_BodyWheneverPresent ==
  \A c \in CallIds :
    (calls[c].fn \in BodyFns /\ Len(transport[c].requests) > 0) =>
      LET params == calls[c].args.params
          request == transport[c].requests[1]
      IN /\ request.url = calls[c].args.url
         /\ request.init.method = VerbOf(calls[c].fn)
         /\ (params # Undefined /\ Serializable(params)) =>
              /\ request.init.body = [present |-> TRUE, text |-> JSONText(params)]
              /\ request.init.headers = {<<"Content-Type", "application/json">>}
         /\ params = Undefined =>
              /\ request.init.body = NoBody
              /\ request.init.headers = {}

(* C5: an HttpError carries the verb of the function called, the status of *)
(* the response and the url the request went to: for getJSON the url with  *)
(* its query string, for the body verbs the caller's url                   *)
C5_HttpErrorFields ==
  \A c \in CallIds :
    IsHttpError(calls[c].result) =>
      LET error == calls[c].result.error
      IN /\ error.verb = VerbOf(calls[c].fn)
         /\ transport[c].fetch.state = "fulfilled"
         /\ error.status = transport[c].fetch.status
         /\ error.url = transport[c].requests[Len(transport[c].requests)].url
         /\ error.url = AloneUrl(calls[c])
         /\ (calls[c].fn = "getJSON" /\ RefEncode("", calls[c].args.params) # <<>>)
              => error.url # calls[c].args.url

(* A getJSON with fragments has failed with 404 *)
C5_Witness ==
  \E c \in CallIds :
    /\ calls[c].args = [url |-> "foo/bar", params |-> TestNumbers]
    /\ calls[c].result
         = Rejected(HttpError("GET", "foo/bar?num1=12&num2=34", 404))

(* C6: a call has called fetch once if it reached the transport and never  *)
(* otherwise, whatever came back: no status and no failure sends a second  *)
(* request                                                                 *)
C6_OneFetch ==
  \A c \in CallIds :
    /\ Len(transport[c].requests) <= 1
    /\ (calls[c].pc \in {"fetch", "json"} \/ calls[c].response.received)
         => Len(transport[c].requests) = 1
    /\ (calls[c].pc = "done" /\ calls[c].result.state = "rejected")
         => transport[c].fetch.state # "pending"

(* One call ended by a 404 and one by a transport failure, one request each *)
C6_Witness ==
  \E c, d \in CallIds :
    /\ IsHttpError(calls[c].result)
    /\ transport[d].fetch.state = "rejected"
    /\ calls[d].pc = "done"
    /\ Len(transport[c].requests) = 1
    /\ Len(transport[d].requests) = 1

(* C7: json() is called only on a response whose status was seen to be     *)
(* 200, and never on a response of another status                          *)
C7_JsonOnlyAfter200 ==
  \A c \in CallIds :
    /\ transport[c].jsonCalls > 0 =>
         /\ transport[c].jsonCalls = 1
         /\ calls[c].response = [received |-> TRUE, status |-> 200]
         /\ transport[c].fetch = [state |-> "fulfilled", status |-> 200]
    /\ (transport[c].fetch.state = "fulfilled" /\ transport[c].fetch.status # 200)
         => transport[c].jsonCalls = 0 /\ transport[c].json.state = "none"

(* A 404 has ended one call with its body unread, a 200 had another read it *)
C7_Witness ==
  \E c, d \in CallIds :
    /\ transport[c].fetch = [state |-> "fulfilled", status |-> 404]
    /\ calls[c].pc = "done"
    /\ transport[c].jsonCalls = 0
    /\ transport[d].fetch = [state |-> "fulfilled", status |-> 200]
    /\ transport[d].jsonCalls = 1

(* C8: an error fetch or json() rejects with is the error the call rejects *)
(* with, and an HttpError comes only from a response of a status other     *)
(* than 200                                                                *)
C8_ErrorsPropagate ==
  \A c \in CallIds :
    /\ transport[c].fetch.state = "rejected"
         => calls[c].result = Rejected(transport[c].fetch.error)
    /\ transport[c].json.state = "rejected"
         => /\ calls[c].result = Rejected(transport[c].json.error)
            /\ transport[c].fetch.status = 200
    /\ IsHttpError(calls[c].result)
         => /\ transport[c].fetch.state = "fulfilled"
            /\ transport[c].fetch.status # 200

(* fetch has failed one call and json() another *)
C8_Witness ==
  \E c, d \in CallIds :
    /\ transport[c].fetch.state = "rejected"
    /\ calls[c].result.state = "rejected"
    /\ transport[d].json.state = "rejected"
    /\ calls[d].result.state = "rejected"

(* C9: whatever the other calls do and in whatever order the answers come, *)
(* the requests and the result of a call are those of the call alone:      *)
(* functions of its own arguments and its own answers                      *)
C9_CallsIndependent ==
  \A c \in CallIds :
    calls[c].pc # "idle" =>
      /\ transport[c].requests = AloneRequests(calls[c])
      /\ calls[c].result = AloneResult(calls[c], transport[c])

(* The second call has failed while the first, to another url with another *)
(* verb, still waits for its response                                      *)
C9_Witness ==
  \E c, d \in CallIds :
    /\ c < d
    /\ calls[c].pc = "fetch"
    /\ IsHttpError(calls[d].result)
    /\ calls[c].url # calls[d].url
    /\ calls[c].verb # calls[d].verb

(* C10: getJSON with a function, symbol or bigint anywhere in params       *)
(* rejects with the encoder's TypeError and never calls fetch              *)
C10_UnsupportedRejects ==
  \A c \in CallIds :
    (calls[c].fn = "getJSON" /\ ~Supported(calls[c].args.params)) =>
      /\ calls[c].pc = "done"
      /\ calls[c].result = Rejected(TypeError)
      /\ transport[c] = IdleTransport

(* A bigint two levels down, after a number that encodes, has rejected the call *)
C10_Witness ==
  \E c \in CallIds :
    /\ calls[c].fn = "getJSON"
    /\ calls[c].args.params = Arr(<<Num(1), Arr(<<Null, BigInt(1)>>)>>)
    /\ calls[c].result = Rejected(TypeError)
    /\ transport[c].requests = <<>>

====
